---- MODULE Spec2Model ----
(***************************************************************************)
(* plugin-mssql: SCIM user provisioning against the table [dbo].[User].    *)
(*                                                                         *)
(* Every handler call lives in a slot of `call`.  A call that reaches the  *)
(* Promise executor builds its connection configuration and its statement  *)
(* and then waits twice for the driver: for the 'connect' event and for    *)
(* the Request callback.  The store is the sequence of rows `table`.       *)
(*                                                                         *)
(* Encoding of values.  A JavaScript value that may be undefined (or a     *)
(* column that may be NULL) is a sequence of length at most one: <<>> is   *)
(* undefined/NULL and <<v>> is the value v.  UserID strings are sequences  *)
(* of one-character strings, because `like` reads them character by        *)
(* character.  Credentials and authorization headers are sequences of      *)
(* character codes, because base64 works on them.  Values are taken from   *)
(* alphabets without the quote character: a statement is modelled by its   *)
(* structure, which is what its text denotes as long as no interpolated    *)
(* value contains a quote.                                                 *)
(***************************************************************************)
EXTENDS Integers, Sequences, FiniteSets, TLC

VARIABLES config, table, call

vars == <<config, table, call>>

\* ------------------------------------------------------------------------
\* Values
\* ------------------------------------------------------------------------

None == <<>>

Some(v) == <<v>>

\* JavaScript truthiness of an optional string: undefined and '' are falsy.
Truthy(o) == o # None /\ o[1] # ""

\* `x ? x : undefined` (and `x ? '...' : null`) for an optional string.
OrUndefined(o) == IF Truthy(o) THEN o ELSE None

\* ------------------------------------------------------------------------
\* Bounds
\* ------------------------------------------------------------------------

\* Calls in flight at the same time (slots of `call`).
MaxInFlight == 2

\* Rows the store holds: createUser is not started on a full table.
MaxRows == 2

Slots == 1 .. MaxInFlight

\* ------------------------------------------------------------------------
\* The table [dbo].[User]
\* ------------------------------------------------------------------------

\* T-SQL `s like p` on strings over an alphabet without '^', '-' and the
\* escape character: '%' matches any run, '_' any one character, '[...]'
\* one character of the set, any other character itself.
RECURSIVE Like(_, _)
Like(s, p) ==
    IF p = <<>> THEN s = <<>>
    ELSE IF Head(p) = "%" THEN Like(s, Tail(p)) \/ (s # <<>> /\ Like(Tail(s), p))
    ELSE IF Head(p) = "_" THEN s # <<>> /\ Like(Tail(s), Tail(p))
    ELSE IF Head(p) = "[" /\ \E k \in 2 .. Len(p) : p[k] = "]"
    THEN LET close == CHOOSE k \in 2 .. Len(p) :
                          p[k] = "]" /\ \A j \in 2 .. (k - 1) : p[j] # "]"
             set == {p[j] : j \in 2 .. (close - 1)}
         IN  s # <<>> /\ Head(s) \in set /\ Like(Tail(s), SubSeq(p, close + 1, Len(p)))
    ELSE s # <<>> /\ Head(s) = Head(p) /\ Like(Tail(s), Tail(p))

\* A predicate on UserID: UserID = 'v' or UserID like 'v'.
Equals(v) == [op |-> "=", value |-> v]

IsLike(v) == [op |-> "like", value |-> v]

\* Whether a row satisfies the where clause (None: there is none).
Matches(row, where) ==
    \/ where = None
    \/ where # None /\ where[1].op = "=" /\ row.UserID = where[1].value
    \/ where # None /\ where[1].op = "like" /\ Like(row.UserID, where[1].value)

\* A statement, by its structure.
SelectStmt(where) == [kind |-> "select", where |-> where]

\* insert into [User] (columns) values (values): positional.
InsertStmt(columns, values) ==
    [kind |-> "insert", columns |-> columns, values |-> values, where |-> None]

\* update [User] set <assignments> where ...; an assignment is
\* <<column, literal>>.
UpdateStmt(sql, where) == [kind |-> "update", set |-> sql, where |-> where]

\* delete from [User] where ...
DeleteStmt(where) == [kind |-> "delete", where |-> where]

\* The row an insert adds: each column gets the value at its position.
InsertedRow(stmt) ==
    [c \in {stmt.columns[i] : i \in DOMAIN stmt.columns} |->
        stmt.values[CHOOSE i \in DOMAIN stmt.columns : stmt.columns[i] = c]]

\* A row after the assignments of an update, applied left to right.
RECURSIVE Assigned(_, _)
Assigned(row, sql) ==
    IF sql = <<>> THEN row
    ELSE Assigned([row EXCEPT ![Head(sql)[1]] = Head(sql)[2]], Tail(sql))

\* What the store does with one statement on table t: err (the statement is
\* refused: an update with an empty set-list is no statement), rowCount, the
\* rows a select returns, and the table afterwards.
Exec(stmt, t) ==
    LET matching == SelectSeq(t, LAMBDA r : Matches(r, stmt.where)) IN
    CASE stmt.kind = "select" ->
            [err |-> FALSE, rowCount |-> Len(matching), rows |-> matching, table |-> t]
      [] stmt.kind = "insert" ->
            [err |-> FALSE, rowCount |-> 1, rows |-> <<>>,
             table |-> Append(t, InsertedRow(stmt))]
      [] stmt.kind = "update" ->
            IF stmt.set = <<>>
            THEN [err |-> TRUE, rowCount |-> 0, rows |-> <<>>, table |-> t]
            ELSE [err |-> FALSE, rowCount |-> Len(matching), rows |-> <<>>,
                  table |-> [i \in DOMAIN t |->
                                IF Matches(t[i], stmt.where)
                                THEN Assigned(t[i], stmt.set) ELSE t[i]]]
      [] stmt.kind = "delete" ->
            [err |-> FALSE, rowCount |-> Len(matching), rows |-> <<>>,
             table |-> SelectSeq(t, LAMBDA r : ~Matches(r, stmt.where))]

\* ------------------------------------------------------------------------
\* getUsers: the filter logic and the row mapping
\* ------------------------------------------------------------------------

UniqueAttributes == {Some("id"), Some("userName"), Some("externalId")}

GroupsMemberError == "not supporting groups member of user filtering"

SimpelFilteringError == "not supporting simpel filtering"

AdvancedFilteringError == "not error: supporting advanced filtering"

\* The if-else logic with the raw-filter branch falling through to the
\* unfiltered select.
GetUsersQueryRawFilterIgnored(getObj) ==
    IF getObj = None THEN [throws |-> "TypeError", sqlQuery |-> None]
    ELSE LET g == getObj[1] IN
         IF Truthy(g.operator)
         THEN IF g.operator = Some("eq") /\ g.attribute \in UniqueAttributes
              THEN [throws |-> "", sqlQuery |-> Some(SelectStmt(Some(Equals(g.value))))]
              ELSE IF g.operator = Some("eq") /\ g.attribute = Some("group.value")
              THEN [throws |-> GroupsMemberError, sqlQuery |-> None]
              ELSE [throws |-> SimpelFilteringError, sqlQuery |-> None]
         ELSE [throws |-> "", sqlQuery |-> Some(SelectStmt(None))]

\* The mandatory if-else logic: the statement to issue, or the error thrown.
\* getObj is None when the caller passes no filter object: reading
\* getObj.operator then throws a TypeError.
GetUsersQuery(getObj) ==
    IF getObj = None THEN [throws |-> "TypeError", sqlQuery |-> None]
    ELSE LET g == getObj[1] IN
         IF Truthy(g.operator)
         THEN IF g.operator = Some("eq") /\ g.attribute \in UniqueAttributes
              THEN [throws |-> "", sqlQuery |-> Some(SelectStmt(Some(Equals(g.value))))]
              ELSE IF g.operator = Some("eq") /\ g.attribute = Some("group.value")
              THEN [throws |-> GroupsMemberError, sqlQuery |-> None]
              ELSE [throws |-> SimpelFilteringError, sqlQuery |-> None]
         ELSE IF Truthy(g.rawFilter)
         THEN [throws |-> AdvancedFilteringError, sqlQuery |-> None]
         ELSE [throws |-> "", sqlQuery |-> Some(SelectStmt(None))]

\* One row as a SCIM user.  The object has no password key; name is always an
\* object; a key whose value is undefined is None.
RowToUser(row) ==
    [id |-> IF row.UserID # <<>> THEN Some(row.UserID) ELSE None,
     userName |-> IF row.UserID # <<>> THEN Some(row.UserID) ELSE None,
     active |-> (row.Enabled = Some("true")),
     name |-> Some([givenName |-> OrUndefined(row.FirstName),
                    middleName |-> OrUndefined(row.MiddleName),
                    familyName |-> OrUndefined(row.LastName)]),
     phoneNumbers |-> IF Truthy(row.MobilePhone)
                      THEN Some(<<[type |-> "work", value |-> row.MobilePhone[1]]>>)
                      ELSE None,
     emails |-> IF Truthy(row.Email)
                THEN Some(<<[type |-> "work", value |-> row.Email[1]]>>)
                ELSE None]

\* ret.Resources after the loop over the rows.
Resources(rows) == [i \in DOMAIN rows |-> RowToUser(rows[i])]

\* ------------------------------------------------------------------------
\* createUser and modifyUser: the values written
\* ------------------------------------------------------------------------

JsString(b) == IF b THEN "true" ELSE "false"

\* `(x) ? `'${x}'` : null` for an optional string.
QuotedOrNull(o) == IF Truthy(o) THEN Some(o[1]) ELSE None

EmptyName == [givenName |-> None, middleName |-> None, familyName |-> None]

\* userObj.name after `if (!userObj.name) userObj.name = {}`.
NameOf(obj) == IF obj.name = None THEN EmptyName ELSE obj.name[1]

\* obj.emails.work.value after `if (!obj.emails) obj.emails = { work: {} }`;
\* Some(v) in obj.emails stands for { work: { value: v } }.
WorkEmail(obj) == IF obj.emails = None THEN None ELSE obj.emails[1]

WorkPhone(obj) == IF obj.phoneNumbers = None THEN None ELSE obj.phoneNumbers[1]

\* The `insert` object with Enabled defaulting to 'true'.
InsertValuesEnabledByDefault(userObj) ==
    [UserID |-> userObj.userName,
     Enabled |-> IF userObj.active # None THEN Some(JsString(userObj.active[1]))
                 ELSE Some("true"),
     Password |-> QuotedOrNull(userObj.password),
     FirstName |-> QuotedOrNull(NameOf(userObj).givenName),
     MiddleName |-> QuotedOrNull(NameOf(userObj).middleName),
     LastName |-> QuotedOrNull(NameOf(userObj).familyName),
     MobilePhone |-> QuotedOrNull(WorkPhone(userObj)),
     Email |-> QuotedOrNull(WorkEmail(userObj))]

\* The `insert` object of createUser.
InsertValues(userObj) ==
    [UserID |-> userObj.userName,
     Enabled |-> IF userObj.active # None /\ userObj.active[1]
                 THEN Some(JsString(userObj.active[1])) ELSE Some("false"),
     Password |-> QuotedOrNull(userObj.password),
     FirstName |-> QuotedOrNull(NameOf(userObj).givenName),
     MiddleName |-> QuotedOrNull(NameOf(userObj).middleName),
     LastName |-> QuotedOrNull(NameOf(userObj).familyName),
     MobilePhone |-> QuotedOrNull(WorkPhone(userObj)),
     Email |-> QuotedOrNull(WorkEmail(userObj))]

\* The insert statement of createUser.
CreateUserQuery(userObj) ==
    LET insert == InsertValues(userObj) IN
    InsertStmt(<<"UserID", "Enabled", "Password", "FirstName", "MiddleName", "LastName",
                 "Email", "MobilePhone">>,
               <<insert.UserID, insert.Enabled, insert.Password, insert.FirstName,
                 insert.MiddleName, insert.LastName, insert.Email, insert.MobilePhone>>)

\* One step of `sql +=` in modifyUser: nothing for undefined, column=null for
\* '', column='value' otherwise.
SetClause(column, o) ==
    IF o = None THEN <<>>
    ELSE IF o[1] = "" THEN << <<column, None>> >>
    ELSE << <<column, Some(o[1])>> >>

\* The assignments of modifyUser, in the order the code appends them (the
\* trailing comma is removed: the list is the assignments themselves).
ModifySql(attrObj) ==
    (IF attrObj.active # None
     THEN << <<"Enabled", Some(JsString(attrObj.active[1]))>> >> ELSE <<>>)
    \o SetClause("Password", attrObj.password)
    \o SetClause("FirstName", NameOf(attrObj).givenName)
    \o SetClause("MiddleName", NameOf(attrObj).middleName)
    \o SetClause("LastName", NameOf(attrObj).familyName)
    \o SetClause("MobilePhone", WorkPhone(attrObj))
    \o SetClause("Email", WorkEmail(attrObj))

ModifyUserQuery(id, attrObj) == UpdateStmt(ModifySql(attrObj), Some(IsLike(id)))

\* The delete with the predicate of modifyUser.
DeleteUserQueryLike(id) == DeleteStmt(Some(IsLike(id)))

DeleteUserQuery(id) == DeleteStmt(Some(Equals(id)))

\* ------------------------------------------------------------------------
\* Auth PassThrough: the authorization header and the connection
\* configuration.  Strings are sequences of character codes.
\* ------------------------------------------------------------------------

\* ' ', ':' and '='.
Space == 32

Colon == 58

Pad == 61

\* 'Basic'
BasicWord == <<66, 97, 115, 105, 99>>

\* str.split(sep) for a one-character separator: at least one part.
RECURSIVE Split(_, _)
Split(str, sep) ==
    IF \A i \in DOMAIN str : str[i] # sep THEN <<str>>
    ELSE LET k == CHOOSE i \in DOMAIN str : str[i] = sep /\ \A j \in 1 .. (i - 1) : str[j] # sep
         IN  <<SubSeq(str, 1, k - 1)>> \o Split(SubSeq(str, k + 1, Len(str)), sep)

\* The value of a character of the base64 alphabet, -1 for any other.
B64Value(c) ==
    IF c >= 65 /\ c <= 90 THEN c - 65
    ELSE IF c >= 97 /\ c <= 122 THEN c - 71
    ELSE IF c >= 48 /\ c <= 57 THEN c + 4
    ELSE IF c = 43 THEN 62
    ELSE IF c = 47 THEN 63
    ELSE -1

\* The bytes of a run of 6-bit values: 4 give 3 bytes, 3 give 2, 2 give 1.
RECURSIVE SextetsToBytes(_)
SextetsToBytes(v) ==
    IF Len(v) < 2 THEN <<>>
    ELSE IF Len(v) = 2 THEN <<v[1] * 4 + v[2] \div 16>>
    ELSE IF Len(v) = 3 THEN <<v[1] * 4 + v[2] \div 16, (v[2] % 16) * 16 + v[3] \div 4>>
    ELSE <<v[1] * 4 + v[2] \div 16, (v[2] % 16) * 16 + v[3] \div 4, (v[3] % 4) * 64 + v[4]>>
         \o SextetsToBytes(SubSeq(v, 5, Len(v)))

\* Buffer.from(token, 'base64').toString() for a token that decodes to ASCII:
\* decoding stops at the first '=', characters outside the alphabet are skipped.
Base64Decode(token) ==
    LET data == Split(token, Pad)[1]
        valid == SelectSeq(data, LAMBDA c : B64Value(c) >= 0)
    IN  SextetsToBytes([i \in DOMAIN valid |-> B64Value(valid[i])])

\* getCtxAuth for a ctx whose authorization header is Some(header): the pair
\* [username, password], each possibly undefined.  A Basic header comes with
\* its token (Buffer.from(undefined) would throw).
getCtxAuth(ctx) ==
    IF ctx = None \/ ctx[1] = <<>> THEN <<None, None>>
    ELSE LET parts == Split(ctx[1], Space)
             authType == parts[1]
             authToken == IF Len(parts) >= 2 THEN Some(parts[2]) ELSE None
             decoded == IF authType = BasicWord /\ authToken # None
                        THEN Split(Base64Decode(authToken[1]), Colon) ELSE <<>>
             username == IF Len(decoded) >= 1 THEN Some(decoded[1]) ELSE None
             password == IF Len(decoded) >= 2 THEN Some(decoded[2]) ELSE None
         IN  IF username # None /\ username[1] # <<>>
             THEN <<username, password>>
             ELSE <<None, authToken>>

\* scimgateway.copyObj: a new object with the same content.
copyObj(obj) == [ref |-> "clone", value |-> obj]

\* `connectionCfg` naming config.connection itself.
connectionCfgAliased == [ref |-> "config", value |-> config.connection]

\* The object `connectionCfg` names: the clone of config.connection.
connectionCfgObject == copyObj(config.connection)

\* The Auth PassThrough block on the object o: with an authorization header,
\* authentication, its type and its options are filled in when missing, the
\* password is replaced, and the userName is replaced by a truthy username.
PassThrough(o, ctx) ==
    IF ctx = None \/ ctx[1] = <<>> THEN o
    ELSE LET authentication == IF o.value.authentication = None
                               THEN [type |-> None, options |-> None]
                               ELSE o.value.authentication[1]
             type == IF Truthy(authentication.type) THEN authentication.type
                     ELSE Some("default")
             options == IF authentication.options = None
                        THEN [userName |-> None, password |-> None]
                        ELSE authentication.options[1]
             username == getCtxAuth(ctx)[1]
             password == getCtxAuth(ctx)[2]
         IN  [o EXCEPT !.value.authentication =
                 Some([type |-> type,
                       options |-> Some([userName |-> IF username # None /\ username[1] # <<>>
                                                      THEN username ELSE options.userName,
                                         password |-> password])])]

\* ------------------------------------------------------------------------
\* The static configuration
\* ------------------------------------------------------------------------

\* 'sa', and the secret getSecret resolves at load time ('s3').
ConfiguredUser == <<115, 97>>

ResolvedSecret == <<115, 51>>

\* config after the plugin is loaded, with an authentication section ...
ConfigWithAuth ==
    [connection |->
        [server |-> "mssql-a",
         authentication |->
            Some([type |-> Some("default"),
                  options |-> Some([userName |-> Some(ConfiguredUser),
                                    password |-> Some(ResolvedSecret)])])]]

\* ... and without one (pass-through only).
ConfigNoAuth == [connection |-> [server |-> "mssql-b", authentication |-> None]]

Configs == {ConfigWithAuth, ConfigNoAuth}

\* The configuration as loaded, found by the server it names (no handler
\* writes the server).
LoadedConfig(server) == CHOOSE c \in Configs : c.connection.server = server

\* ------------------------------------------------------------------------
\* Calls
\* ------------------------------------------------------------------------

Idle == [pc |-> "idle"]

\* A call that reached `new Connection(connectionCfg)` and connection.connect().
Connecting(op, args, ctx, sqlQuery, connectionCfg) ==
    [pc |-> "connecting", op |-> op, args |-> args, ctx |-> ctx,
     sqlQuery |-> Some(sqlQuery), connection |-> Some(connectionCfg), closes |-> 0,
     settled |-> "pending", error |-> "", result |-> None]

\* A call that threw before the Promise executor: no statement, no connection.
Thrown(op, args, ctx, error) ==
    [pc |-> "settled", op |-> op, args |-> args, ctx |-> ctx,
     sqlQuery |-> None, connection |-> None, closes |-> 0,
     settled |-> "rejected", error |-> error, result |-> None]

\* A call that returned without a connection.
Returned(op, args, ctx, result) ==
    [pc |-> "settled", op |-> op, args |-> args, ctx |-> ctx,
     sqlQuery |-> None, connection |-> None, closes |-> 0,
     settled |-> "resolved", error |-> "", result |-> Some(result)]

\* Rows the table holds once the inserts in flight are done.
RowsAfterInserts ==
    Len(table) + Cardinality({s \in Slots : call[s].pc \in {"connecting", "executing"}
                                             /\ call[s].op = "createUser"})

\* The Promise executor from `copyObj` to `connection.connect()`: the pass-through
\* block writes to the object connectionCfg names, and the connection is built
\* from it.
Open(s, op, args, ctx, sqlQuery) ==
    LET o == PassThrough(connectionCfgObject, ctx) IN
    /\ call' = [call EXCEPT ![s] = Connecting(op, args, ctx, sqlQuery, o.value)]
    /\ config' = IF o.ref = "clone" THEN config ELSE [config EXCEPT !.connection = o.value]
    /\ UNCHANGED table

getUsers(s, getObj, ctx) ==
    /\ call[s] = Idle
    /\ LET q == GetUsersQuery(getObj) IN
       IF q.throws # ""
       THEN /\ call' = [call EXCEPT ![s] = Thrown("getUsers", <<getObj>>, ctx, q.throws)]
            /\ UNCHANGED <<config, table>>
       ELSE Open(s, "getUsers", <<getObj>>, ctx, q.sqlQuery[1])

createUser(s, userObj, ctx) ==
    /\ call[s] = Idle
    /\ RowsAfterInserts < MaxRows
    /\ Open(s, "createUser", <<userObj>>, ctx, CreateUserQuery(userObj))

deleteUser(s, id, ctx) ==
    /\ call[s] = Idle
    /\ Open(s, "deleteUser", <<id>>, ctx, DeleteUserQuery(id))

modifyUser(s, id, attrObj, ctx) ==
    /\ call[s] = Idle
    /\ Open(s, "modifyUser", <<id, attrObj>>, ctx, ModifyUserQuery(id, attrObj))

\* getGroups reads getObj.operator (a TypeError without a filter object) and
\* returns empty Resources.
getGroups(s, getObj) ==
    /\ call[s] = Idle
    /\ call' = [call EXCEPT ![s] =
                   IF getObj = None THEN Thrown("getGroups", <<getObj>>, None, "TypeError")
                   ELSE Returned("getGroups", <<getObj>>, None, [Resources |-> <<>>])]
    /\ UNCHANGED <<config, table>>

\* The 'connect' event: with an error the call rejects, and the handler does
\* not call connection.close(); without one the request is handed to execSql.
onConnect(s, err) ==
    /\ call[s].pc = "connecting"
    /\ call' = [call EXCEPT ![s] =
                   IF err
                   THEN [@ EXCEPT !.pc = "settled", !.settled = "rejected",
                                  !.error = "connect-error"]
                   ELSE [@ EXCEPT !.pc = "executing"]]
    /\ UNCHANGED <<config, table>>

\* The Request callback.  The store refuses the statement, or the driver
\* reports a failure of its own (err) with the statement applied or not, or
\* the statement is done.  Either way the handler closes the connection;
\* getUsers maps the rows.
onRequest(s, err, applied) ==
    /\ call[s].pc = "executing"
    /\ LET r == Exec(call[s].sqlQuery[1], table) IN
       IF err \/ r.err
       THEN /\ call' = [call EXCEPT ![s] =
                           [@ EXCEPT !.pc = "settled", !.settled = "rejected",
                                     !.error = "statement-error", !.closes = @ + 1]]
            /\ table' = IF applied /\ ~r.err THEN r.table ELSE table
       ELSE /\ call' = [call EXCEPT ![s] =
                           [@ EXCEPT !.pc = "settled", !.settled = "resolved",
                                     !.closes = @ + 1,
                                     !.result =
                                        IF call[s].op = "getUsers"
                                        THEN Some([Resources |-> Resources(r.rows),
                                                   totalResults |-> None])
                                        ELSE None]]
            /\ table' = r.table
    /\ UNCHANGED config

\* The host gateway has the outcome of the call; the slot is free again.
Return(s) ==
    /\ call[s].pc = "settled"
    /\ call' = [call EXCEPT ![s] = Idle]
    /\ UNCHANGED <<config, table>>

\* ------------------------------------------------------------------------
\* Inputs
\* ------------------------------------------------------------------------

\* The character of the base64 alphabet for a 6-bit value.
B64Char(v) ==
    IF v < 26 THEN 65 + v
    ELSE IF v < 52 THEN 71 + v
    ELSE IF v < 62 THEN v - 4
    ELSE IF v = 62 THEN 43
    ELSE 47

\* The caller's side of a Basic header: base64 of a byte string.
RECURSIVE Base64Encode(_)
Base64Encode(b) ==
    IF Len(b) = 0 THEN <<>>
    ELSE IF Len(b) = 1
    THEN <<B64Char(b[1] \div 4), B64Char((b[1] % 4) * 16), Pad, Pad>>
    ELSE IF Len(b) = 2
    THEN <<B64Char(b[1] \div 4), B64Char((b[1] % 4) * 16 + b[2] \div 16),
           B64Char((b[2] % 16) * 4), Pad>>
    ELSE <<B64Char(b[1] \div 4), B64Char((b[1] % 4) * 16 + b[2] \div 16),
           B64Char((b[2] % 16) * 4 + b[3] \div 64), B64Char(b[3] % 64)>>
         \o Base64Encode(SubSeq(b, 4, Len(b)))

\* 'Basic ' and base64(username ':' secret).
BasicHeader(username, secret) ==
    BasicWord \o <<Space>> \o Base64Encode(username \o <<Colon>> \o secret)

\* 'Bearer ' and the token.
BearerHeader(token) == <<66, 101, 97, 114, 101, 114, Space>> \o token

\* '' and 'al'.
Usernames == {<<>>, <<97, 108>>}

\* 'pw', 'p:w' and ''.
Secrets == {<<112, 119>>, <<112, Colon, 119>>, <<>>}

\* 'tk'
Tokens == {<<116, 107>>}

\* ctx is None without an authorization header, else Some(header).
Ctxs ==
    {None} \cup {Some(BasicHeader(u, p)) : u \in Usernames, p \in Secrets}
           \cup {Some(BearerHeader(t)) : t \in Tokens}

FewCtxs == {None, Some(BasicHeader(<<97, 108>>, <<112, 119>>))}

\* User ids: '', 'a', '%' and '[a]'.
Ids == {<<>>, <<"a">>, <<"%">>, <<"[", "a", "]">>}

FewIds == {<<"a">>}

Filter(operator, attribute, value, rawFilter) ==
    [operator |-> operator, attribute |-> attribute, value |-> value, rawFilter |-> rawFilter]

\* No filter object, the empty filter, eq on id, a raw filter.
FewGetObjs ==
    {None, Some(Filter(None, None, <<>>, None)),
     Some(Filter(Some("eq"), Some("id"), <<"a">>, Some("id eq"))),
     Some(Filter(None, None, <<>>, Some("a or b")))}

\* No filter object, the empty filter, eq on the unique attributes, and
\* filters getUsers does not support.
GetObjsOn(ids) ==
    {None, Some(Filter(None, None, <<>>, None))}
    \cup {Some(Filter(Some("eq"), Some("id"), v, Some("id eq"))) : v \in ids}
    \cup {Some(Filter(Some("eq"), Some(a), <<"a">>, Some("eq"))) :
             a \in {"userName", "externalId", "group.value", "displayName"}}
    \cup {Some(Filter(Some("co"), Some("userName"), <<"a">>, Some("co"))),
          Some(Filter(None, None, <<>>, Some("a or b")))}

NoFields == [active |-> None, password |-> None, name |-> None, emails |-> None,
             phoneNumbers |-> None]

\* Every optional field set to v.
AllFields(v) ==
    [active |-> None, password |-> Some(v),
     name |-> Some([givenName |-> Some(v), middleName |-> Some(v), familyName |-> Some(v)]),
     emails |-> Some(Some(v)), phoneNumbers |-> Some(Some(v))]

\* The first name alone set to v, and every optional field but it.
FirstNameOnly(v) == [NoFields EXCEPT !.name = Some([EmptyName EXCEPT !.givenName = Some(v)])]

AllButFirstName(v) ==
    [AllFields(v) EXCEPT !.name = Some([givenName |-> None, middleName |-> Some(v),
                                        familyName |-> Some(v)])]

WithUserName(obj, userName) ==
    [userName |-> userName, active |-> obj.active, password |-> obj.password,
     name |-> obj.name, emails |-> obj.emails, phoneNumbers |-> obj.phoneNumbers]

\* createUser payloads: only the userName; every field set; every field ''.
UserObjsOn(ids) ==
    {WithUserName(o, u) :
        o \in {NoFields, [AllFields("x") EXCEPT !.active = Some(TRUE)],
               [AllFields("") EXCEPT !.active = Some(FALSE)]},
        u \in ids}

\* modifyUser payloads: nothing to change, the flag, every field set, and
\* fields cleared with ''.
AttrObjs ==
    {NoFields, [NoFields EXCEPT !.active = Some(TRUE)], AllFields("x"),
     FirstNameOnly(""), AllButFirstName("")}

FewAttrObjs == {NoFields, [NoFields EXCEPT !.active = Some(TRUE)]}

\* ------------------------------------------------------------------------
\* Specifications
\* ------------------------------------------------------------------------

Init ==
    /\ config = ConfigWithAuth
    /\ table = <<>>
    /\ call = [s \in Slots |-> Idle]

\* Calls in flight together, with and without pass-through credentials.
Next ==
    \E s \in Slots :
        \/ \E getObj \in FewGetObjs, ctx \in FewCtxs : getUsers(s, getObj, ctx)
        \/ \E id \in FewIds, ctx \in FewCtxs : createUser(s, WithUserName(NoFields, id), ctx)
        \/ \E id \in FewIds, ctx \in FewCtxs : deleteUser(s, id, ctx)
        \/ \E id \in FewIds, ctx \in FewCtxs :
              modifyUser(s, id, [NoFields EXCEPT !.active = Some(FALSE)], ctx)
        \/ \E getObj \in FewGetObjs : getGroups(s, getObj)
        \/ \E err \in BOOLEAN : onConnect(s, err)
        \/ \E err \in BOOLEAN, applied \in BOOLEAN : onRequest(s, err, applied)
        \/ Return(s)

Spec == Init /\ [][Next]_vars

\* One call at a time, over the ids and the payloads.
NextSeq ==
    \/ \E getObj \in GetObjsOn(Ids) : getUsers(1, getObj, None)
    \/ \E userObj \in UserObjsOn(Ids) : createUser(1, userObj, None)
    \/ \E id \in Ids : deleteUser(1, id, None)
    \/ \E id \in Ids, attrObj \in AttrObjs : modifyUser(1, id, attrObj, None)
    \/ \E getObj \in GetObjsOn(Ids) : getGroups(1, getObj)
    \/ \E err \in BOOLEAN : onConnect(1, err)
    \/ \E err \in BOOLEAN, applied \in BOOLEAN : onRequest(1, err, applied)
    \/ Return(1)

SpecSeq == Init /\ [][NextSeq]_vars

\* One call at a time, over the authorization headers and both configurations.
InitAuth ==
    /\ config \in Configs
    /\ table = <<>>
    /\ call = [s \in Slots |-> Idle]

NextAuth ==
    \/ \E getObj \in FewGetObjs, ctx \in Ctxs : getUsers(1, getObj, ctx)
    \/ \E id \in FewIds, ctx \in Ctxs : createUser(1, WithUserName(NoFields, id), ctx)
    \/ \E id \in FewIds, ctx \in Ctxs : deleteUser(1, id, ctx)
    \/ \E id \in FewIds, attrObj \in FewAttrObjs, ctx \in Ctxs : modifyUser(1, id, attrObj, ctx)
    \/ \E getObj \in FewGetObjs : getGroups(1, getObj)
    \/ \E err \in BOOLEAN : onConnect(1, err)
    \/ \E err \in BOOLEAN, applied \in BOOLEAN : onRequest(1, err, applied)
    \/ Return(1)

SpecAuth == InitAuth /\ [][NextAuth]_vars

\* ------------------------------------------------------------------------
\* Claims
\* ------------------------------------------------------------------------

UserOperations == {"getUsers", "createUser", "deleteUser", "modifyUser"}

\* What getUsers filtered on id eq `id` returns from table t.
GetUsersById(t, id) ==
    Resources(Exec(GetUsersQuery(Some(Filter(Some("eq"), Some("id"), id, Some("id eq"))))
                       .sqlQuery[1], t).rows)

\* The Request callback of call s runs in this step and ends the call.
Completes(s, op) ==
    /\ call[s].pc = "executing"
    /\ call[s].op = op
    /\ call'[s].pc = "settled"

\* C1: a user operation that built a connection has closed it exactly once
\* when the call settles, whether the statement succeeded, the statement
\* failed or the connect failed.
C1_ClosedExactlyOnce ==
    \A s \in Slots :
        (call[s].pc = "settled" /\ call[s].op \in UserOperations /\ call[s].connection # None)
            => call[s].closes = 1

\* The two filter kinds the claim C2 sets apart.
NoOperatorNoRawFilter(g) == g.operator = None /\ g.rawFilter = None

EqOnUniqueAttribute(g) ==
    g.operator = Some("eq") /\ g.attribute \in {Some("id"), Some("userName"), Some("externalId")}

UnsupportedFilterErrors == {GroupsMemberError, SimpelFilteringError, AdvancedFilteringError}

\* C2: a getUsers call whose filter is neither "no operator and no raw filter"
\* nor "eq on id, userName or externalId" is rejected with an unsupported-filter
\* error, with no connection built and no statement issued.
C2_UnsupportedFilterFailsFast ==
    \A s \in Slots :
        (/\ call[s].pc # "idle"
         /\ call[s].op = "getUsers"
         /\ call[s].args[1] # None
         /\ ~NoOperatorNoRawFilter(call[s].args[1][1])
         /\ ~EqOnUniqueAttribute(call[s].args[1][1]))
            => /\ call[s].pc = "settled"
               /\ call[s].settled = "rejected"
               /\ call[s].error \in UnsupportedFilterErrors
               /\ call[s].connection = None
               /\ call[s].sqlQuery = None

\* A getUsers call with a raw filter alone has been rejected.
C2_Witness ==
    \E s \in Slots :
        /\ call[s].pc = "settled"
        /\ call[s].op = "getUsers"
        /\ call[s].args[1] = Some(Filter(None, None, <<>>, Some("a or b")))
        /\ call[s].settled = "rejected"

\* C3: a call whose context carries the Basic header of username:secret
\* connects with userName = username and password = secret, for every
\* username (the empty one too) and every secret (with ':' too).
C3_BasicHeaderCredentials ==
    \A s \in Slots : \A u \in Usernames, p \in Secrets :
        (/\ call[s].pc # "idle"
         /\ call[s].op \in UserOperations
         /\ call[s].connection # None
         /\ call[s].ctx = Some(BasicHeader(u, p)))
            => /\ call[s].connection[1].authentication # None
               /\ call[s].connection[1].authentication[1].options # None
               /\ call[s].connection[1].authentication[1].options[1].userName = Some(u)
               /\ call[s].connection[1].authentication[1].options[1].password = Some(p)

\* C4: in every step the table keeps one row per UserID, and no row that
\* stays changes its UserID.
C4_OneRowPerId ==
    [][/\ \A i, j \in DOMAIN table' : i # j => table'[i].UserID # table'[j].UserID
       /\ Len(table') >= Len(table) => \A i \in DOMAIN table : table'[i].UserID = table[i].UserID
      ]_vars

\* createUser with only userName = u has succeeded in this step.
CreatedWithOnlyUserName(s, u) ==
    /\ Completes(s, "createUser")
    /\ call'[s].settled = "resolved"
    /\ call[s].args = <<WithUserName(NoFields, u)>>

\* C5 as claimed: after createUser with only userName u, getUsers on id eq u
\* returns a record with id = userName = u, active = false, and without
\* password, name, emails and phoneNumbers.
C5_CreateThenGet ==
    [][\A s \in Slots, u \in Ids :
          CreatedWithOnlyUserName(s, u) =>
              \E k \in DOMAIN GetUsersById(table', u) :
                  LET user == GetUsersById(table', u)[k] IN
                  /\ user.id = Some(u) /\ user.userName = Some(u)
                  /\ user.active = FALSE
                  /\ "password" \notin DOMAIN user
                  /\ user.name = None
                  /\ user.emails = None /\ user.phoneNumbers = None
      ]_vars

\* C5 as amended: for a userName u that is not empty the record has
\* id = userName = u, active = false, no password, emails or phoneNumbers,
\* and a name object with no givenName, middleName or familyName.
C5_CreateThenGetAmended ==
    [][\A s \in Slots, u \in Ids \ {<<>>} :
          CreatedWithOnlyUserName(s, u) =>
              \E k \in DOMAIN GetUsersById(table', u) :
                  LET user == GetUsersById(table', u)[k] IN
                  /\ user.id = Some(u) /\ user.userName = Some(u)
                  /\ user.active = FALSE
                  /\ "password" \notin DOMAIN user
                  /\ user.name = Some(EmptyName)
                  /\ user.emails = None /\ user.phoneNumbers = None
      ]_vars

\* createUser with only userName 'a' has succeeded and its row is stored.
C5_Witness ==
    \E s \in Slots :
        /\ call[s].pc = "settled" /\ call[s].op = "createUser"
        /\ call[s].settled = "resolved"
        /\ call[s].args = <<WithUserName(NoFields, <<"a">>)>>
        /\ \E i \in DOMAIN table : table[i].UserID = <<"a">>

\* The columns a modifyUser payload clears with ''.
ClearedColumns(attrObj) ==
    {c \in {"Password", "FirstName", "MiddleName", "LastName", "Email", "MobilePhone"} :
        LET o == CASE c = "Password" -> attrObj.password
                   [] c = "FirstName" -> NameOf(attrObj).givenName
                   [] c = "MiddleName" -> NameOf(attrObj).middleName
                   [] c = "LastName" -> NameOf(attrObj).familyName
                   [] c = "Email" -> WorkEmail(attrObj)
                   [] c = "MobilePhone" -> WorkPhone(attrObj)
        IN  o = Some("")}

\* Whether the SCIM user lacks the field column c maps to.
FieldAbsent(user, c) ==
    CASE c = "Password" -> "password" \notin DOMAIN user
      [] c = "FirstName" -> user.name = None \/ user.name[1].givenName = None
      [] c = "MiddleName" -> user.name = None \/ user.name[1].middleName = None
      [] c = "LastName" -> user.name = None \/ user.name[1].familyName = None
      [] c = "Email" -> user.emails = None
      [] c = "MobilePhone" -> user.phoneNumbers = None

\* C6: a successful modifyUser of an existing id with a field set to '' leaves
\* null in that column of the rows of that id, and getUsers on that id shows
\* the field absent.
C6_EmptyStringClears ==
    [][\A s \in Slots, id \in Ids, attrObj \in AttrObjs :
          (/\ Completes(s, "modifyUser")
           /\ call'[s].settled = "resolved"
           /\ call[s].args = <<id, attrObj>>
           /\ \E i \in DOMAIN table : table[i].UserID = id)
              => \A c \in ClearedColumns(attrObj) :
                    /\ \A i \in DOMAIN table' : table'[i].UserID = id => table'[i][c] = None
                    /\ \A k \in DOMAIN GetUsersById(table', id) :
                          FieldAbsent(GetUsersById(table', id)[k], c)
      ]_vars

C8_GetGroupsEmpty ==
    \A s \in Slots :
        (call[s].pc = "settled" /\ call[s].op = "getGroups")
            => /\ call[s].settled = "resolved"
               /\ call[s].result = Some([Resources |-> <<>>])
               /\ call[s].connection = None
               /\ call[s].sqlQuery = None

\* C9: no call changes the static configuration, and a call without an
\* authorization header connects with the configuration as loaded, whatever
\* the other calls in flight carry.
C9_StaticConfigUntouched ==
    /\ config = LoadedConfig(config.connection.server)
    /\ \A s \in Slots :
          (/\ call[s].pc # "idle"
           /\ call[s].op \in UserOperations
           /\ call[s].connection # None
           /\ call[s].ctx = None)
              => call[s].connection[1] = LoadedConfig(config.connection.server).connection

\* A call with a header is in flight or settled, and a call without one has
\* its connection.
C9_Witness ==
    \E s, t \in Slots :
        /\ call[s].pc # "idle" /\ call[s].op \in UserOperations
        /\ call[s].connection # None /\ call[s].ctx # None
        /\ call[s].pc \in {"executing", "settled"}
        /\ call[t].pc = "connecting" /\ call[t].ctx = None

\* C10: a successful modifyUser(id, attrObj) leaves every row whose UserID is
\* not id as it was.
C10_ModifyOnlyThatId ==
    [][\A s \in Slots, id \in Ids :
          (/\ Completes(s, "modifyUser")
           /\ call'[s].settled = "resolved"
           /\ call[s].args[1] = id)
              => \A i \in DOMAIN table : table[i].UserID # id => table'[i] = table[i]
      ]_vars

====
